---- MODULE Spec2Model ----
(***************************************************************************)
(* Model of forge_scripts/diagonal-generator.js: the LPC diagonal sprite   *)
(* generator.  A canvas is a record [kind, width, height, px] with         *)
(* px[y][x] the pixel at column x of line y.  A pixel is an integer: 0 is  *)
(* the fully transparent pixel of a freshly created canvas, a positive     *)
(* number is an opaque colour, a negative number is the blend the default  *)
(* image smoothing produces when a source rectangle is not aligned to the  *)
(* pixel grid.  Shear amounts are rationals [num, den].                    *)
(***************************************************************************)
EXTENDS Integers, FiniteSets, Sequences, TLC

VARIABLES sheet, pc, call, outcome, task, heap

vars == <<sheet, pc, call, outcome, task, heap>>

(* ------------------------------ bounds -------------------------------- *)

\* widest sheet of the model
MaxWidth == 3
\* shear amounts are 0, 1, .., MaxShearSteps times DIAGONAL_SHEAR_AMOUNT
MaxShearSteps == 2
\* the LPC-format sheets have heights 256, 260, .., 256 + 4 * MaxExtraLines
MaxExtraLines == 1

(* ----------------------------- constants ------------------------------ *)

DIAGONAL_SHEAR_AMOUNT == [num |-> 3, den |-> 20]

\* the least height of a sheet taken as a 4-row LPC sheet
MinLPCHeight == 256

Transparent == 0

DiagonalDirections == {"ne", "nw", "se", "sw"}

\* the tokens a caller may pass as direction: the four diagonals, the
\* cardinal tokens, an unknown token and the empty string
DirectionTokens == DiagonalDirections \cup {"n", "x", ""}

ShearAmounts ==
    {[num |-> k * DIAGONAL_SHEAR_AMOUNT.num, den |-> DIAGONAL_SHEAR_AMOUNT.den] :
        k \in 0..MaxShearSteps}

(* ------------------------------ canvases ------------------------------ *)

\* document.createElement('canvas') with width and height set: every pixel
\* is transparent black
CreateCanvas(w, h) ==
    [kind |-> "canvas", width |-> w, height |-> h,
     px |-> [y \in 0..(h - 1) |-> [x \in 0..(w - 1) |-> Transparent]]]

\* the absent image (null or undefined passed as sourceImage)
NullImage == [kind |-> "null", width |-> 0, height |-> 0, px |-> <<>>]

ZeroSized(img) == img.width = 0 \/ img.height = 0

\* the pixel of img at (x, y); nothing is sampled outside the image
PixelAt(img, x, y) ==
    IF x \in 0..(img.width - 1) /\ y \in 0..(img.height - 1)
    THEN img.px[y][x]
    ELSE Transparent

\* sourceCtx.drawImage(img, 0, 0) on a fresh canvas of img's size
CopyToCanvas(img) ==
    [kind |-> "canvas", width |-> img.width, height |-> img.height,
     px |-> [y \in 0..(img.height - 1) |->
                [x \in 0..(img.width - 1) |-> PixelAt(img, x, y)]]]

(* --------------------------- input sheets ----------------------------- *)

Min(a, b) == IF a <= b THEN a ELSE b

Patterns == {"tagged", "symmetric", "stencil"}

\* the colour of pixel (x, y) of a w-wide sheet painted with pattern p:
\* "tagged" gives every pixel its own opaque colour, "symmetric" is
\* mirror-symmetric in x, "stencil" has transparent pixels
PatternPixel(p, w, x, y) ==
    CASE p = "tagged" -> 1 + y * w + x
      [] p = "symmetric" -> 1 + y * w + Min(x, w - 1 - x)
      [] OTHER -> IF (x + y) % 2 = 0 THEN Transparent ELSE 1 + y * w + x

Painted(p, w, h) ==
    [kind |-> "canvas", width |-> w, height |-> h,
     px |-> [y \in 0..(h - 1) |-> [x \in 0..(w - 1) |-> PatternPixel(p, w, x, y)]]]

\* heights of the sheets in LPC format
LPCHeights == {MinLPCHeight + 4 * k : k \in 0..MaxExtraLines}

\* heights that fail the format check: not a multiple of 4, or below 256
OtherHeights == {3, 6, 8, MinLPCHeight + 2}

SheetHeights == LPCHeights \cup OtherHeights

Sheets ==
    {Painted(p, w, h) : p \in Patterns, w \in 1..MaxWidth, h \in SheetHeights}
    \cup {CreateCanvas(0, MinLPCHeight), CreateCanvas(1, 0), CreateCanvas(0, 0)}
    \cup {NullImage}

(* ------------------------------ outcomes ------------------------------ *)

\* a call returns a value, having emitted `warnings` console.warn notices,
\* or it throws
Returned(value, warnings) ==
    [kind |-> "returned", value |-> value, error |-> "", warnings |-> warnings]

Thrown(error) ==
    [kind |-> "thrown", value |-> NullImage, error |-> error, warnings |-> 0]

NoOutcome == [kind |-> "none", value |-> NullImage, error |-> "", warnings |-> 0]

NoCall == [op |-> "none", direction |-> "", shearAmount |-> [num |-> 0, den |-> 1],
           rowIndex |-> 0]

(* ----------------------------- extractRow ----------------------------- *)

\* a canvas dimension set from a number of quarter pixels (height / 4):
\* the canvas keeps the integer part
CanvasSize(quarters) == quarters \div 4

\* the pixel the default (smoothed) sampling gives between a and b, q
\* quarters of the way from a to b; equal pixels blend to themselves
SmoothedPixel(a, b, q, w, h) ==
    IF a = b THEN a ELSE 0 - (((a * (w * h + 2) + b) * 4) + q)

\* pixel (x, y) of the row canvas: drawImage of the source rectangle
\* [0, rowIndex * rowHeight, width, rowHeight] at scale 1.  top is the
\* source line of the pixel's upper edge, in quarter pixels.
ExtractedPixel(sourceCanvas, rowIndex, x, y) ==
    LET top == rowIndex * sourceCanvas.height + 4 * y
    IN  IF top % 4 = 0
        THEN PixelAt(sourceCanvas, x, top \div 4)
        ELSE SmoothedPixel(PixelAt(sourceCanvas, x, top \div 4),
                           PixelAt(sourceCanvas, x, (top \div 4) + 1),
                           top % 4, sourceCanvas.width, sourceCanvas.height)

\* variant: the source rectangle starts one line too low
extractRow_shifted(sourceCanvas, rowIndex) ==
    LET width == sourceCanvas.width
        rowLines == CanvasSize(sourceCanvas.height)
    IN  [kind |-> "canvas", width |-> width, height |-> rowLines,
         px |-> [y \in 0..(rowLines - 1) |->
                    [x \in 0..(width - 1) |->
                        ExtractedPixel(sourceCanvas, rowIndex, x, y + 1)]]]

extractRow(sourceCanvas, rowIndex) ==
    LET width == sourceCanvas.width
        rowLines == CanvasSize(sourceCanvas.height)
    IN  [kind |-> "canvas", width |-> width, height |-> rowLines,
         px |-> [y \in 0..(rowLines - 1) |->
                    [x \in 0..(width - 1) |->
                        ExtractedPixel(sourceCanvas, rowIndex, x, y)]]]

(* ------------------------- applyShearTransform ------------------------ *)

\* ctx.transform(a, b, c, d, e, f): x' = a*x + c*y + e, y' = b*x + d*y + f.
\* a and d are whole numbers; b, c, e, f are numerators over den.
Matrix(a, b, c, d, e, f, den) ==
    [a |-> a, b |-> b, c |-> c, d |-> d, e |-> e, f |-> f, den |-> den]

\* variant: the offset is the width, not width * shearAmount
ShearMatrix_unscaledOffset(direction, shearAmount, width) ==
    IF direction = "ne" \/ direction = "se"
    THEN Matrix(1, shearAmount.num, 0, 1, 0, 0, shearAmount.den)
    ELSE Matrix(1, 0 - shearAmount.num, 0, 1, width * shearAmount.den, 0,
                shearAmount.den)

\* the arguments applyShearTransform passes to ctx.transform
ShearMatrix(direction, shearAmount, width) ==
    IF direction = "ne" \/ direction = "se"
    THEN Matrix(1, shearAmount.num, 0, 1, 0, 0, shearAmount.den)
    ELSE Matrix(1, 0 - shearAmount.num, 0, 1, width * shearAmount.num, 0,
                shearAmount.den)

\* ctx.drawImage(source, 0, 0) under matrix m with image smoothing off:
\* the output pixel (x, y) shows the source pixel that holds the inverse
\* image of its centre (x + 1/2, y + 1/2), and stays transparent when that
\* point is outside the source.  For a = d = 1 and b*c = 0 the inverse is
\*   xs = (x' - e) - c*(y' - f),  ys = (y' - f) - b*(x' - e).
\* X and Y are x' - e and y' - f in units of 1/(2*den).
SampledPixel(source, m, x, y) ==
    LET X == 2 * m.den * x + m.den - 2 * m.e
        Y == 2 * m.den * y + m.den - 2 * m.f
        unit == 2 * m.den * m.den
        xs == (X * m.den - m.c * Y) \div unit
        ys == (Y * m.den - m.b * X) \div unit
    IN  PixelAt(source, xs, ys)

DrawImageTransformed(width, height, source, m) ==
    [kind |-> "canvas", width |-> width, height |-> height,
     px |-> [y \in 0..(height - 1) |->
                [x \in 0..(width - 1) |-> SampledPixel(source, m, x, y)]]]

\* variant: the output canvas takes its height from the width
applyShearTransform_squared(sourceCanvas, direction, shearAmount) ==
    DrawImageTransformed(sourceCanvas.width, sourceCanvas.width, sourceCanvas,
                         ShearMatrix(direction, shearAmount, sourceCanvas.width))

applyShearTransform(sourceCanvas, direction, shearAmount) ==
    DrawImageTransformed(sourceCanvas.width, sourceCanvas.height, sourceCanvas,
                         ShearMatrix(direction, shearAmount, sourceCanvas.width))

(* --------------------------- generateDiagonal ------------------------- *)

\* variant: no minimum height
isLPCFormat_anyHeight(height) == height % 4 = 0

isLPCFormat(height) == height % 4 = 0 /\ height >= MinLPCHeight

\* variant: row 3 (East) taken for ne and nw
BaseRowIndex_east(direction) ==
    IF direction = "ne" \/ direction = "nw" THEN 3 ELSE 0

\* the row generateDiagonal extracts: North (2) for ne and nw, South (0)
\* for every other token
BaseRowIndex(direction) ==
    IF direction = "ne" \/ direction = "nw" THEN 2 ELSE 0

\* img.width of an absent image is a TypeError; drawImage of a canvas with
\* a zero dimension is an InvalidStateError
generateDiagonal(sourceImage, direction, shearAmount) ==
    IF sourceImage.kind = "null" THEN Thrown("TypeError")
    ELSE IF ZeroSized(sourceImage) THEN Thrown("InvalidStateError")
    ELSE LET sourceCanvas == CopyToCanvas(sourceImage)
         IN  IF ~isLPCFormat(sourceCanvas.height)
             THEN Returned(applyShearTransform(sourceCanvas, direction, shearAmount), 1)
             ELSE Returned(applyShearTransform(
                               extractRow(sourceCanvas, BaseRowIndex(direction)),
                               direction, shearAmount), 0)

(* ------------------ generateAllDiagonals, All8Directions -------------- *)

generateAllDiagonals(sourceImage, shearAmount) ==
    LET d == [k \in DiagonalDirections |-> generateDiagonal(sourceImage, k, shearAmount)]
    IN  IF d["ne"].kind = "thrown" THEN d["ne"]
        ELSE Returned([ne |-> d["ne"].value, nw |-> d["nw"].value,
                       se |-> d["se"].value, sw |-> d["sw"].value],
                      d["ne"].warnings + d["nw"].warnings
                          + d["se"].warnings + d["sw"].warnings)

\* variant: the rows of n and e exchanged
CardinalRowIndex_swapped(key) ==
    CASE key = "n" -> 3 [] key = "e" -> 2 [] key = "s" -> 0 [] OTHER -> 1

\* the row generateAll8Directions extracts for a cardinal key
CardinalRowIndex(key) ==
    CASE key = "n" -> 2 [] key = "e" -> 3 [] key = "s" -> 0 [] OTHER -> 1

generateAll8Directions(sourceImage, shearAmount) ==
    IF sourceImage.kind = "null" THEN Thrown("TypeError")
    ELSE IF ZeroSized(sourceImage) THEN Thrown("InvalidStateError")
    ELSE LET sourceCanvas == CopyToCanvas(sourceImage)
             d == [k \in DiagonalDirections |-> generateDiagonal(sourceImage, k, shearAmount)]
         IN  Returned([n |-> extractRow(sourceCanvas, CardinalRowIndex("n")),
                       e |-> extractRow(sourceCanvas, CardinalRowIndex("e")),
                       s |-> extractRow(sourceCanvas, CardinalRowIndex("s")),
                       w |-> extractRow(sourceCanvas, CardinalRowIndex("w")),
                       ne |-> d["ne"].value, nw |-> d["nw"].value,
                       se |-> d["se"].value, sw |-> d["sw"].value],
                      d["ne"].warnings + d["nw"].warnings
                          + d["se"].warnings + d["sw"].warnings)

(* ------------------- the eight generations as tasks ------------------ *)

CardinalDirections == {"n", "e", "s", "w"}

AllDirections == CardinalDirections \cup DiagonalDirections

\* the stage of each of the eight entries of generateAll8Directions's result
\* and the console.warn notices it has emitted
NoTasks == [d \in AllDirections |-> [stage |-> "idle", warnings |-> 0]]

\* the canvases created so far, by identity
EmptyHeap == <<>>

\* variant: the canvases come from a pool kept per role, not per call
NewCanvasId_pooled(owner, role) == <<"pool", role>>

\* document.createElement('canvas') gives the calling function a canvas no
\* other call holds: its identity is the call that created it and the local
\* name it is bound to
NewCanvasId(owner, role) == <<owner, role>>

\* the canvas a finished generation returns
OutputId(d) ==
    IF d \in CardinalDirections THEN NewCanvasId(d, "rowCanvas")
    ELSE NewCanvasId(d, "outputCanvas")

(* ------------------------------ actions ------------------------------- *)

Init ==
    /\ sheet \in Sheets
    /\ pc = "idle"
    /\ call = NoCall
    /\ outcome = NoOutcome
    /\ task = NoTasks
    /\ heap = EmptyHeap

CallGenerateDiagonal ==
    /\ pc = "idle"
    /\ \E direction \in DirectionTokens, shearAmount \in ShearAmounts :
          /\ call' = [op |-> "generateDiagonal", direction |-> direction,
                      shearAmount |-> shearAmount, rowIndex |-> 0]
          /\ outcome' = generateDiagonal(sheet, direction, shearAmount)
    /\ pc' = "done"
    /\ UNCHANGED <<sheet, task, heap>>

\* extractRow called on the sheet itself
CallExtractRow ==
    /\ pc = "idle"
    /\ sheet.kind = "canvas"
    /\ \E rowIndex \in 0..3 :
          /\ call' = [op |-> "extractRow", direction |-> "",
                      shearAmount |-> [num |-> 0, den |-> 1], rowIndex |-> rowIndex]
          /\ outcome' = IF ZeroSized(sheet) THEN Thrown("InvalidStateError")
                        ELSE Returned(extractRow(sheet, rowIndex), 0)
    /\ pc' = "done"
    /\ UNCHANGED <<sheet, task, heap>>

\* applyShearTransform called on the sheet itself
CallApplyShearTransform ==
    /\ pc = "idle"
    /\ sheet.kind = "canvas"
    /\ \E direction \in DirectionTokens, shearAmount \in ShearAmounts :
          /\ call' = [op |-> "applyShearTransform", direction |-> direction,
                      shearAmount |-> shearAmount, rowIndex |-> 0]
          /\ outcome' = IF ZeroSized(sheet) THEN Thrown("InvalidStateError")
                        ELSE Returned(applyShearTransform(sheet, direction, shearAmount), 0)
    /\ pc' = "done"
    /\ UNCHANGED <<sheet, task, heap>>

CallGenerateAllDiagonals ==
    /\ pc = "idle"
    /\ \E shearAmount \in ShearAmounts :
          /\ call' = [op |-> "generateAllDiagonals", direction |-> "",
                      shearAmount |-> shearAmount, rowIndex |-> 0]
          /\ outcome' = generateAllDiagonals(sheet, shearAmount)
    /\ pc' = "done"
    /\ UNCHANGED <<sheet, task, heap>>

CallGenerateAll8Directions ==
    /\ pc = "idle"
    /\ \E shearAmount \in ShearAmounts :
          /\ call' = [op |-> "generateAll8Directions", direction |-> "",
                      shearAmount |-> shearAmount, rowIndex |-> 0]
          /\ outcome' = generateAll8Directions(sheet, shearAmount)
    /\ pc' = "done"
    /\ UNCHANGED <<sheet, task, heap>>

\* the caller takes the result; the next call starts afresh
Return ==
    /\ pc = "done"
    /\ pc' = "idle"
    /\ call' = NoCall
    /\ outcome' = NoOutcome
    /\ UNCHANGED <<sheet, task, heap>>

Next ==
    \/ CallGenerateDiagonal
    \/ CallExtractRow
    \/ CallApplyShearTransform
    \/ CallGenerateAllDiagonals
    \/ CallGenerateAll8Directions
    \/ Return

Spec == Init /\ [][Next]_vars

(* ------------- generateAll8Directions, one step at a time ------------- *)

\* the sheets and shear amounts of the stepwise runs: a sheet in LPC
\* format, one that fails the format check, and an empty one
TaskSheets ==
    {Painted("tagged", MaxWidth, h) : h \in {MinLPCHeight, 6}}
    \cup {CreateCanvas(0, 0)}

TaskShearAmounts ==
    {s \in ShearAmounts :
        s.num \in {DIAGONAL_SHEAR_AMOUNT.num, 2 * DIAGONAL_SHEAR_AMOUNT.num}}

InitTasks ==
    /\ sheet \in TaskSheets
    /\ pc = "idle"
    /\ call = NoCall
    /\ outcome = NoOutcome
    /\ task = NoTasks
    /\ heap = EmptyHeap

\* lines 152-158: the function's own copy of the source, or the exception
\* of drawImage
BeginAll8Directions ==
    /\ pc = "idle"
    /\ \E shearAmount \in TaskShearAmounts :
          call' = [op |-> "generateAll8Directions", direction |-> "",
                   shearAmount |-> shearAmount, rowIndex |-> 0]
    /\ IF sheet.kind = "null" \/ ZeroSized(sheet)
       THEN /\ outcome' = generateAll8Directions(sheet, call'.shearAmount)
            /\ pc' = "done"
            /\ UNCHANGED <<task, heap>>
       ELSE /\ heap' = (NewCanvasId("all8", "sourceCanvas") :> CopyToCanvas(sheet))
            /\ task' = [d \in AllDirections |-> [stage |-> "ready", warnings |-> 0]]
            /\ pc' = "running"
            /\ UNCHANGED outcome
    /\ UNCHANGED sheet

\* lines 164-167: one cardinal entry, extractRow of the function's copy
ExtractCardinal(d) ==
    /\ pc = "running"
    /\ task[d].stage = "ready"
    /\ heap' = (NewCanvasId(d, "rowCanvas")
                  :> extractRow(heap[NewCanvasId("all8", "sourceCanvas")],
                                CardinalRowIndex(d))) @@ heap
    /\ task' = [task EXCEPT ![d].stage = "done"]
    /\ UNCHANGED <<sheet, pc, call, outcome>>

\* lines 24-34 of generateDiagonal for entry d: its copy of the source
CopySource(d) ==
    /\ pc = "running"
    /\ task[d].stage = "ready"
    /\ heap' = (NewCanvasId(d, "sourceCanvas") :> CopyToCanvas(sheet)) @@ heap
    /\ task' = [task EXCEPT ![d].stage = "copied"]
    /\ UNCHANGED <<sheet, pc, call, outcome>>

\* lines 39-42: the whole copy is sheared, with a console.warn
ShearWhole(d) ==
    /\ pc = "running"
    /\ task[d].stage = "copied"
    /\ ~isLPCFormat(heap[NewCanvasId(d, "sourceCanvas")].height)
    /\ heap' = (NewCanvasId(d, "outputCanvas")
                  :> applyShearTransform(heap[NewCanvasId(d, "sourceCanvas")],
                                         d, call.shearAmount)) @@ heap
    /\ task' = [task EXCEPT ![d] = [stage |-> "done", warnings |-> 1]]
    /\ UNCHANGED <<sheet, pc, call, outcome>>

\* lines 45-54: the base row of entry d
ExtractBase(d) ==
    /\ pc = "running"
    /\ task[d].stage = "copied"
    /\ isLPCFormat(heap[NewCanvasId(d, "sourceCanvas")].height)
    /\ heap' = (NewCanvasId(d, "rowCanvas")
                  :> extractRow(heap[NewCanvasId(d, "sourceCanvas")],
                                BaseRowIndex(d))) @@ heap
    /\ task' = [task EXCEPT ![d].stage = "extracted"]
    /\ UNCHANGED <<sheet, pc, call, outcome>>

\* line 57: the base row sheared
ShearBase(d) ==
    /\ pc = "running"
    /\ task[d].stage = "extracted"
    /\ heap' = (NewCanvasId(d, "outputCanvas")
                  :> applyShearTransform(heap[NewCanvasId(d, "rowCanvas")],
                                         d, call.shearAmount)) @@ heap
    /\ task' = [task EXCEPT ![d].stage = "done"]
    /\ UNCHANGED <<sheet, pc, call, outcome>>

\* lines 162-174: the object of the eight canvases is returned
CollectAll8 ==
    /\ pc = "running"
    /\ \A d \in AllDirections : task[d].stage = "done"
    /\ outcome' = Returned([d \in AllDirections |-> heap[OutputId(d)]],
                           task["ne"].warnings + task["nw"].warnings
                               + task["se"].warnings + task["sw"].warnings)
    /\ pc' = "done"
    /\ task' = NoTasks
    /\ heap' = EmptyHeap
    /\ UNCHANGED <<sheet, call>>

NextTasks ==
    \/ BeginAll8Directions
    \/ \E d \in CardinalDirections : ExtractCardinal(d)
    \/ \E d \in DiagonalDirections : CopySource(d)
    \/ \E d \in DiagonalDirections : ShearWhole(d)
    \/ \E d \in DiagonalDirections : ExtractBase(d)
    \/ \E d \in DiagonalDirections : ShearBase(d)
    \/ CollectAll8
    \/ Return

SpecTasks == InitTasks /\ [][NextTasks]_vars

(* ---------------------- generateExportSpritesheet ---------------------- *)

\* the order in which the export draws the eight rows
rowOrder == <<"s", "w", "n", "e", "se", "sw", "ne", "nw">>

\* exportCanvas.width and exportCanvas.height
ExportCanvasWidth(all8Dirs) == all8Dirs["n"].width

ExportCanvasHeight(all8Dirs) == all8Dirs["n"].height * 8

\* the line at which row number index (from 0) is drawn:
\* ctx.drawImage(all8Dirs[dir], 0, index * all8Dirs[dir].height)
ExportRowTop(all8Dirs, index) == index * all8Dirs[rowOrder[index + 1]].height

ExportRowBottom(all8Dirs, index) ==
    ExportRowTop(all8Dirs, index) + all8Dirs[rowOrder[index + 1]].height

(* ------------------------- the claims' vocabulary --------------------- *)

\* a call of operation op has just returned or thrown
After(op) == pc = "done" /\ call.op = op

\* the sheet is a present buffer with no zero dimension
Usable == sheet.kind = "canvas" /\ sheet.width > 0 /\ sheet.height > 0

\* the Sprite-Sheet convention
Conventional == sheet.height % 4 = 0 /\ sheet.height >= 256

RowLines == sheet.height \div 4

\* the sheet's pixel at column x, line y of row r
RowPixel(r, x, y) == sheet.px[r * RowLines + y][x]

\* North row for ne and nw, South row for se and sw
ClaimedRow(direction) == IF direction \in {"ne", "nw"} THEN 2 ELSE 0

SameSize(a, w, h) == a.width = w /\ a.height = h

\* line y of canvas out is line y of row r of the sheet moved k pixels to
\* the right (to the left when k < 0); pixels moved past an edge are
\* dropped and the columns left uncovered are transparent
LineShifted(out, r, y, k) ==
    \A x \in 0..(sheet.width - 1) :
        out.px[y][x] = IF (x - k) \in 0..(sheet.width - 1)
                       THEN RowPixel(r, x - k, y)
                       ELSE Transparent

\* the integers within less than one of numer / den
Near(numer, den) ==
    {k \in ((numer \div den) - 1)..((numer \div den) + 1) :
        k * den - numer < den /\ numer - k * den < den}

\* the source line a pattern colour was painted on
SourceLine(colour) == (colour - 1) \div sheet.width

Mirror(a) ==
    [kind |-> "canvas", width |-> a.width, height |-> a.height,
     px |-> [y \in 0..(a.height - 1) |->
                [x \in 0..(a.width - 1) |-> a.px[y][a.width - 1 - x]]]]

Symmetric(a) == a = Mirror(a)

\* the sheet with every pixel outside row r made transparent
OnlyRow(r) ==
    [kind |-> "canvas", width |-> sheet.width, height |-> sheet.height,
     px |-> [y \in 0..(sheet.height - 1) |->
                [x \in 0..(sheet.width - 1) |->
                    IF y \div RowLines = r THEN sheet.px[y][x] ELSE Transparent]]]

(* ------------------------------- claims ------------------------------- *)

\* C1: on a valid sheet, generateDiagonal for 'ne' or 'se' with shear s
\* returns the selected row sheared horizontally: line y of the output is
\* line y of the row moved right by s*y (to the nearest pixel), pixels
\* moved to x >= width are dropped and uncovered pixels are transparent.
C1_HorizontalShearRight ==
    (After("generateDiagonal") /\ Usable /\ Conventional
        /\ call.direction \in {"ne", "se"})
    => /\ outcome.kind = "returned"
       /\ SameSize(outcome.value, sheet.width, RowLines)
       /\ \A y \in 0..(RowLines - 1) :
             \E k \in Near(call.shearAmount.num * y, call.shearAmount.den) :
                 LineShifted(outcome.value, ClaimedRow(call.direction), y, k)

\* C3: on a valid sheet of width W, generateDiagonal for 'nw' or 'sw' with
\* shear s returns a canvas of width W in which line y is line y of the
\* selected row moved by W*s - s*y (to the nearest pixel), pixels moved
\* past the edge being transparent.
C3_HorizontalShearLeft ==
    (After("generateDiagonal") /\ Usable /\ Conventional
        /\ call.direction \in {"nw", "sw"})
    => /\ outcome.kind = "returned"
       /\ SameSize(outcome.value, sheet.width, RowLines)
       /\ \A y \in 0..(RowLines - 1) :
             \E k \in Near(call.shearAmount.num * (sheet.width - y),
                           call.shearAmount.den) :
                 LineShifted(outcome.value, ClaimedRow(call.direction), y, k)

\* C2: on a valid sheet, the output of generateDiagonal for ne and nw is made
\* of pixels of the North row (row 2) and for se and sw of pixels of the
\* South row (row 0): every opaque output pixel was painted on a line of
\* that row, and the output is the same when every other row of the sheet
\* is blanked.
C2_RowSelection ==
    (After("generateDiagonal") /\ Usable /\ Conventional
        /\ call.direction \in DiagonalDirections)
    => LET r == ClaimedRow(call.direction)
       IN  /\ outcome.kind = "returned"
           /\ \A y \in 0..(outcome.value.height - 1), x \in 0..(outcome.value.width - 1) :
                 outcome.value.px[y][x] # Transparent
                 => SourceLine(outcome.value.px[y][x]) \div RowLines = r
           /\ outcome.value
                 = generateDiagonal(OnlyRow(r), call.direction, call.shearAmount).value

C2_Witness ==
    /\ After("generateDiagonal") /\ Usable /\ Conventional
    /\ call.direction = "nw" /\ call.shearAmount.num > 0
    /\ sheet.width > 1
    /\ outcome.kind = "returned"
    /\ \E y \in 0..(outcome.value.height - 1) :
          outcome.value.px[y][1] # Transparent

\* C4: for a sheet with positive dimensions that fails the convention,
\* generateDiagonal with a diagonal direction returns (it does not throw),
\* emits one diagnostic, and its buffer has the size of the whole sheet;
\* for a sheet that satisfies the convention it emits no diagnostic and
\* returns a buffer of size (width, height / 4).
C4_FallbackAndRowSize ==
    (After("generateDiagonal") /\ Usable /\ call.direction \in DiagonalDirections)
    => /\ outcome.kind = "returned"
       /\ ~Conventional
            => /\ outcome.warnings = 1
               /\ SameSize(outcome.value, sheet.width, sheet.height)
       /\ Conventional
            => /\ outcome.warnings = 0
               /\ SameSize(outcome.value, sheet.width, RowLines)

C4_Witness ==
    /\ After("generateDiagonal") /\ Usable /\ call.direction = "se"
    /\ sheet.height % 4 # 0
    /\ outcome.kind = "returned" /\ outcome.warnings = 1
    /\ outcome.value.height = sheet.height

\* C5: generateDiagonal fails instead of returning a buffer for a malformed
\* call: a direction token outside {ne, nw, se, sw} yields UnknownDirection,
\* and an absent or zero-sized input buffer yields a failure.
C5_TypedFailures ==
    After("generateDiagonal")
    => /\ ~Usable => outcome.kind = "thrown"
       /\ (Usable /\ call.direction \notin DiagonalDirections)
            => (outcome.kind = "thrown" /\ outcome.error = "UnknownDirection")

\* C6: for a sheet with positive dimensions, generateAllDiagonals returns
\* exactly the keys ne, nw, se, sw; generateAll8Directions returns exactly
\* the keys n, e, s, w, ne, nw, se, sw, its entries n, e, s, w being
\* extractRow of the sheet at rows 2, 3, 0, 1 and its diagonal entries being
\* generateDiagonal of the same sheet, direction and shear amount.
C6_BatchEntries ==
    /\ (After("generateAllDiagonals") /\ Usable)
         => /\ outcome.kind = "returned"
            /\ DOMAIN outcome.value = {"ne", "nw", "se", "sw"}
    /\ (After("generateAll8Directions") /\ Usable)
         => /\ outcome.kind = "returned"
            /\ DOMAIN outcome.value = {"n", "e", "s", "w", "ne", "nw", "se", "sw"}
            /\ outcome.value.n = extractRow(sheet, 2)
            /\ outcome.value.e = extractRow(sheet, 3)
            /\ outcome.value.s = extractRow(sheet, 0)
            /\ outcome.value.w = extractRow(sheet, 1)
            /\ \A d \in DiagonalDirections :
                  outcome.value[d] = generateDiagonal(sheet, d, call.shearAmount).value

C6_Witness ==
    /\ After("generateAll8Directions") /\ Usable /\ Conventional
    /\ call.shearAmount.num > 0
    /\ sheet.width > 1
    /\ outcome.kind = "returned"
    /\ outcome.value.n # outcome.value.e
    /\ outcome.value.ne # outcome.value.nw

\* C7: for a sheet whose height is a positive multiple of 4 and a row index
\* r in 0..3, extractRow returns a buffer of size (width, height / 4) whose
\* pixel (x, y) is the sheet's pixel (x, r * (height / 4) + y).
C7_ExtractRowIsCrop ==
    (After("extractRow") /\ Usable /\ sheet.height % 4 = 0)
    => /\ outcome.kind = "returned"
       /\ SameSize(outcome.value, sheet.width, RowLines)
       /\ \A y \in 0..(RowLines - 1), x \in 0..(sheet.width - 1) :
             outcome.value.px[y][x] = sheet.px[call.rowIndex * RowLines + y][x]

C7_Witness ==
    /\ After("extractRow") /\ Usable /\ Conventional
    /\ call.rowIndex = 3
    /\ outcome.kind = "returned"
    /\ outcome.value.height = RowLines
    /\ outcome.value.px[0][0] = sheet.px[3 * RowLines][0]
    /\ outcome.value.px[0][0] # Transparent

\* C8: with shear amount 0, applyShearTransform returns a buffer pixel-equal
\* to its input for every direction, and generateDiagonal on a valid sheet
\* returns the plain North row (ne, nw) or South row (se, sw).
C8_ZeroShearIsIdentity ==
    /\ (After("applyShearTransform") /\ Usable /\ call.shearAmount.num = 0)
         => /\ outcome.kind = "returned"
            /\ outcome.value = sheet
    /\ (After("generateDiagonal") /\ Usable /\ Conventional
           /\ call.direction \in DiagonalDirections /\ call.shearAmount.num = 0)
         => /\ outcome.kind = "returned"
            /\ SameSize(outcome.value, sheet.width, RowLines)
            /\ \A y \in 0..(RowLines - 1), x \in 0..(sheet.width - 1) :
                  outcome.value.px[y][x] = RowPixel(ClaimedRow(call.direction), x, y)

C8_Witness ==
    /\ After("applyShearTransform") /\ Usable
    /\ call.shearAmount.num = 0 /\ call.direction = "nw"
    /\ sheet.width > 1 /\ sheet.height > 1
    /\ outcome.kind = "returned"
    /\ outcome.value.px[1][1] = sheet.px[1][1]
    /\ outcome.value.px[1][1] # Transparent

C10_ShearKeepsSize ==
    (After("applyShearTransform") /\ Usable)
    => /\ outcome.kind = "returned"
       /\ outcome.value.width = sheet.width
       /\ outcome.value.height = sheet.height

C10_Witness ==
    /\ After("applyShearTransform") /\ Usable
    /\ call.shearAmount.num * 10 = 3 * call.shearAmount.den
    /\ call.direction = "sw"
    /\ sheet.width # sheet.height
    /\ outcome.kind = "returned"
    /\ SameSize(outcome.value, sheet.width, sheet.height)

\* the buffer generation d produces when it runs alone on the sheet
Alone(d) ==
    IF d \in CardinalDirections
    THEN extractRow(sheet, CASE d = "n" -> 2 [] d = "e" -> 3 [] d = "s" -> 0 [] OTHER -> 1)
    ELSE generateDiagonal(sheet, d, call.shearAmount).value

\* in every state of a stepwise run, whatever the order of the steps so far,
\* each finished generation holds the buffer it produces alone
C11_SameAsAlone ==
    /\ pc = "running"
         => \A d \in AllDirections :
               task[d].stage = "done" => heap[OutputId(d)] = Alone(d)
    /\ (After("generateAll8Directions") /\ outcome.kind = "returned")
         => \A d \in AllDirections : outcome.value[d] = Alone(d)

\* a step leaves the sheet and every canvas that already exists as they
\* are, and the one canvas it adds belongs to the generation that stepped
\* (or, for the first step, to generateAll8Directions itself)
C11_OwnFreshWrites ==
    /\ sheet' = sheet
    /\ \A id \in DOMAIN heap' :
          IF id \in DOMAIN heap
          THEN heap'[id] = heap[id]
          ELSE \/ pc = "idle" /\ id[1] = "all8"
               \/ id[1] \in AllDirections /\ task'[id[1]] # task[id[1]]

\* C11: the eight generations of generateAll8Directions, stepped in any
\* order or interleaving over the same sheet, each produce the buffer they
\* produce alone; each step writes only a freshly created canvas of its own
\* generation, and the sheet is unchanged by every step.
C11_Independent == [](C11_SameAsAlone) /\ [][C11_OwnFreshWrites]_vars

\* ne has finished and returned a sheared row while n has not started, nw
\* holds only its copy and s has finished: an order the sequential code
\* never takes
C11_Witness ==
    /\ pc = "running"
    /\ isLPCFormat(sheet.height)
    /\ task["ne"].stage = "done" /\ task["s"].stage = "done"
    /\ task["n"].stage = "ready" /\ task["nw"].stage = "copied"
    /\ task["sw"].stage = "extracted"
    /\ heap[OutputId("ne")] = Alone("ne")
    /\ heap[OutputId("ne")] # extractRow(sheet, 2)

\* C12: for every sheet generateAll8Directions accepts, also one that fails
\* the convention check, the eight returned buffers have the same width and
\* the same height, so that the export, drawing them in rowOrder at lines
\* index * height on a canvas of height 8 * n.height, places every row
\* inside the canvas and no row over another.
C12_UniformRowsStack ==
    (After("generateAll8Directions") /\ outcome.kind = "returned")
    => LET all8Dirs == outcome.value
       IN  /\ \A d \in AllDirections :
                 /\ all8Dirs[d].width = all8Dirs["n"].width
                 /\ all8Dirs[d].height = all8Dirs["n"].height
           /\ \A i \in 0..7 :
                 /\ all8Dirs[rowOrder[i + 1]].width <= ExportCanvasWidth(all8Dirs)
                 /\ ExportRowBottom(all8Dirs, i) <= ExportCanvasHeight(all8Dirs)
           /\ \A i \in 0..6 :
                 ExportRowBottom(all8Dirs, i) <= ExportRowTop(all8Dirs, i + 1)

====
